---- MODULE Spec2Model ----
(***************************************************************************)
(* RandomizerInterface (generator/randomizerinterface.py) and the forms    *)
(* it reads (generator/forms.py).                                          *)
(*                                                                         *)
(* Python strings are sequences of one-character strings.  Settings        *)
(* objects live in a heap (a sequence of records) so that aliasing between *)
(* the caller's settings object and randomizer.settings is explicit.       *)
(***************************************************************************)
EXTENDS Integers, Sequences, FiniteSets, TLC

\* ------------------------------------------------------------------ bounds
\* submitted character names have at most MaxNameLen characters
MaxNameLen == 6
\* submitted integer options are drawn from -NegSubmitted..MaxSubmitted
NegSubmitted == 2
MaxSubmitted == 9

\* ------------------------------------------------------------ Python values
\* None and present values of an optional form field
None == [some |-> FALSE]
Some(v) == [some |-> TRUE, v |-> v]
IsNone(x) == ~x.some

Digits == <<"0", "1", "2", "3", "4", "5", "6", "7", "8", "9">>
Letters == {"a", "b", "c", "d", "e", "f", "g", "h", "i", "j", "k", "l", "m",
            "n", "o", "p", "q", "r", "s", "t", "u", "v", "w", "x", "y", "z",
            "A", "B", "C", "D", "E", "F", "G", "H", "I", "J", "K", "L", "M",
            "N", "O", "P", "Q", "R", "S", "T", "U", "V", "W", "X", "Y", "Z"}
DigitChars == {Digits[i] : i \in 1..10}

\* str(n) for a non-negative int: decimal digits, no leading zero
RECURSIVE str(_)
str(n) == IF n < 10 THEN <<Digits[n + 1]>>
          ELSE str(n \div 10) \o <<Digits[(n % 10) + 1]>>

\* str.isalnum(): non-empty and every character a letter or a digit
isalnum(s) == Len(s) > 0 /\ \A i \in 1..Len(s) : s[i] \in Letters \cup DigitChars

\* file.readline(): the text up to and including the first newline
RECURSIVE readline(_)
readline(text) ==
    IF text = <<>> THEN <<>>
    ELSE IF Head(text) = "\n" THEN <<"\n">>
    ELSE <<Head(text)>> \o readline(Tail(text))

\* str.split(","): the pieces between commas, empty pieces kept
RECURSIVE split(_)
split(s) ==
    IF \A i \in 1..Len(s) : s[i] # ","
    THEN <<s>>
    ELSE LET i == CHOOSE j \in 1..Len(s) :
                      s[j] = "," /\ \A k \in 1..(j - 1) : s[k] # ","
         IN <<SubSeq(s, 1, i - 1)>> \o split(SubSeq(s, i + 1, Len(s)))

\* min and max as clamp uses them
min(a, b) == IF a < b THEN a ELSE b
max(a, b) == IF a > b THEN a ELSE b

\* clamp without its lower bound
clamp_no_floor(value, min_val, max_val) == min(value, max_val)

\* RandomizerInterface.clamp
clamp(value, min_val, max_val) == max(min_val, min(value, max_val))

\* get_character_name rejecting names of five characters
get_character_name_short(name, default_name) ==
    IF IsNone(name) THEN default_name
    ELSE IF name.v = <<>> \/ Len(name.v) >= 5 \/ ~isalnum(name.v) THEN default_name
    ELSE name.v

\* RandomizerInterface.get_character_name
get_character_name(name, default_name) ==
    IF IsNone(name) THEN default_name
    ELSE IF name.v = <<>> \/ Len(name.v) > 5 \/ ~isalnum(name.v) THEN default_name
    ELSE name.v

\* the defaults set_settings_and_config passes for char_names[0..7]
CharDefaults ==
    [i \in 0..7 |->
        CASE i = 0 -> <<"C", "r", "o", "n", "o">>
          [] i = 1 -> <<"M", "a", "r", "l", "e">>
          [] i = 2 -> <<"L", "u", "c", "c", "a">>
          [] i = 3 -> <<"R", "o", "b", "o">>
          [] i = 4 -> <<"F", "r", "o", "g">>
          [] i = 5 -> <<"A", "y", "l", "a">>
          [] i = 6 -> <<"M", "a", "g", "u", "s">>
          [] i = 7 -> <<"E", "p", "o", "c", "h">>]

\* the form field read for char_names[i]
NameFields ==
    [i \in 0..7 |->
        CASE i = 0 -> "crono_name" [] i = 1 -> "marle_name"
          [] i = 2 -> "lucca_name" [] i = 3 -> "robo_name"
          [] i = 4 -> "frog_name"  [] i = 5 -> "ayla_name"
          [] i = 6 -> "magus_name" [] i = 7 -> "epoch_name"]


\* ------------------------------------------------------------------ inputs
\* contents of names.txt the server may hold
NamesFiles == { <<"a">>, <<"a", ",", "a", "1", "\n", "z">> }

\* seeds a caller-held settings object may carry
CallerSeeds == { <<"a", "a">>, <<"z", "9">> }

\* GenerateForm.cleaned_data: seed is '' when the field is left empty
GenerateForms == [seed : { <<>>, <<"a", "a">> }, spoiler_log : BOOLEAN]

\* values of datetime.datetime.now().microsecond (0..999999)
Microseconds == {0, 999999}

\* the values of the engine's CTOpts fields in a new Settings object (the
\* engine is not part of this repository: either end of each range)
CTOptionsDefaults ==
    { [stereo_audio |-> b, save_menu_cursor |-> b, save_battle_cursor |-> b,
       skill_item_info |-> b, consistent_paging |-> b,
       battle_speed |-> IF b THEN 7 ELSE 0,
       menu_background |-> IF b THEN 7 ELSE 0,
       battle_msg_speed |-> IF b THEN 7 ELSE 0,
       battle_gauge_style |-> IF b THEN 2 ELSE 0] : b \in BOOLEAN }

\* configs a caller may hand to set_settings_and_config
CallerConfigs == { [seed |-> <<"o", "l", "d">>] }

\* RomForm.cleaned_data when nothing but the required fields is submitted:
\* BooleanField gives False, CharField gives '', IntegerField gives None
EmptyRomForm ==
    [reduce_flashes |-> FALSE, zenan_alt_battle_music |-> FALSE,
     death_peak_alt_music |-> FALSE, quiet_mode |-> FALSE,
     crono_name |-> Some(<<>>), marle_name |-> Some(<<>>),
     lucca_name |-> Some(<<>>), robo_name |-> Some(<<>>),
     frog_name |-> Some(<<>>), ayla_name |-> Some(<<>>),
     magus_name |-> Some(<<>>), epoch_name |-> Some(<<>>),
     stereo_audio |-> Some(FALSE), save_menu_cursor |-> Some(FALSE),
     save_battle_cursor |-> Some(FALSE), skill_item_info |-> Some(FALSE),
     consistent_paging |-> Some(FALSE),
     background_selection |-> None, battle_speed |-> None,
     battle_message_speed |-> None, battle_gauge_style |-> None]

\* ------------------------------------------------------------------- state
VARIABLES
    names_txt,      \* contents of names.txt
    new_ctoptions,  \* ctoptions of a new engine Settings object
    heap,           \* the Settings objects, by identity 1..Len(heap): the
                    \* caller's and, once made, the one the latest
                    \* configure_seed_from_form made (the one before is dropped)
    rsettings,      \* self.randomizer.settings: a heap identity, 0 before any call
    rconfig,        \* self.randomizer.config: None or Some(config)
    pc,             \* position in the running method: idle, loop, call, finish
    op,             \* the method running or last run
    gform,          \* argument: the GenerateForm of the latest call, if it was
                    \* configure_seed_from_form
    settings,       \* argument: settings (a heap identity), 0 outside the call
    seed,           \* local: seed, '' while unbound
    new_seed,       \* local: new_seed, '' while unbound
    nonce,          \* local: nonce, '' while unbound
    race,           \* whether the generation takes the race branch
    outcome,        \* how the last finished call ended, and its return value
    form,           \* argument: the RomForm of the last set_settings_and_config
    earlier         \* history: one finished generation, kept for comparison

vars == <<names_txt, new_ctoptions, heap, rsettings, rconfig, pc, op, gform,
          settings, seed, new_seed, nonce, race, outcome, form, earlier>>

frame == <<op, gform, settings, seed, new_seed, nonce, race>>

\* rset.Settings(): a new settings object
Settings ==
    [seed |-> <<>>,
     item_difficulty |-> "NORMAL", enemy_difficulty |-> "NORMAL",
     game_mode |-> "STANDARD", techorder |-> "FULL_RANDOM",
     gameflags |-> {}, cosmetic_flags |-> {},
     char_names |-> CharDefaults,
     ctoptions |-> new_ctoptions]

\* the GenerateForm argument outside configure_seed_from_form
NoGenerateForm == [seed |-> <<>>, spoiler_log |-> TRUE]

Init ==
    /\ names_txt \in NamesFiles
    /\ new_ctoptions \in CTOptionsDefaults
    /\ \E s \in CallerSeeds, g \in {{}, {"MYSTERY"}}, c \in {{}, {"QUIET_MODE"}} :
          heap = << [Settings EXCEPT !.seed = s, !.gameflags = g,
                                     !.cosmetic_flags = c] >>
    /\ rsettings = 0
    /\ rconfig = None
    /\ pc = "idle"
    /\ op = "none"
    /\ gform = NoGenerateForm
    /\ settings = 0
    /\ seed = <<>>
    /\ new_seed = <<>>
    /\ nonce = <<>>
    /\ race = FALSE
    /\ outcome = [op |-> "none", status |-> "none", value |-> <<>>]
    /\ form = EmptyRomForm
    /\ earlier = None

\* names as get_random_seed reads them from names.txt
names == split(readline(names_txt))

\* RandomizerInterface.get_random_seed with random.choice picking i and j
get_random_seed(i, j) == names[i] \o names[j]

\* every string get_random_seed can return
RandomSeeds == { get_random_seed(i, j) : i, j \in 1..Len(names) }

\* RandomizerInterface.__convert_form_to_settings; r is the random seed drawn
convert_form_to_settings(f, r) ==
    [Settings EXCEPT
        !.seed = IF f.seed = <<>> THEN r ELSE f.seed,
        !.item_difficulty = "NORMAL",
        !.enemy_difficulty = "NORMAL",
        !.game_mode = "LEGACY_OF_CYRUS",
        !.techorder = "FULL_RANDOM",
        !.gameflags = @ \cup {"FIX_GLITCH", "FAST_PENDANT", "UNLOCKED_MAGIC",
                              "GEAR_RANDO", "FAST_TABS"}]

\* the nonce of a race generation: str(datetime.datetime.now().microsecond)
Nonces == { str(us) : us \in Microseconds }

\* the nonce put in front of the seed
obfuscated_in_front(s, n) == n \o s

\* the nonce left out
obfuscated_not(s, n) == s

\* seed + nonce, the value the race branch stores before set_random_config
obfuscated(s, n) == s \o n

\* the write after set_random_config left out
restore_seed_skipped(h, id, s) == h

\* the race branch's write after set_random_config: settings.seed = s
restore_seed(h, id, s) == [h EXCEPT ![id].seed = s]

\* the generation just finished: the seed stored on the settings, the branch
\* taken and the seed the engine generated from
Generation(h) == [base |-> h[rsettings].seed, race |-> race,
                  engine |-> rconfig.v.seed]

\* the outcome of a call that has not finished
Running(method) == [op |-> method, status |-> "running", value |-> <<>>]

\* configure_seed_from_form lines 84-95, up to the call of set_random_config
configure_seed_from_form(f, r, n) ==
    /\ pc = "idle"
    /\ LET new == convert_form_to_settings(f, r)
       IN /\ rsettings' = 2
          /\ IF f.spoiler_log
             THEN /\ nonce' = <<>>
                  /\ seed' = <<>>
                  /\ heap' = <<heap[1], new>>
             ELSE /\ nonce' = n
                  /\ seed' = new.seed
                  /\ heap' = <<heap[1], [new EXCEPT !.seed = obfuscated(new.seed, n)]>>
    /\ op' = "configure_seed_from_form"
    /\ gform' = f
    /\ race' = ~f.spoiler_log
    /\ settings' = 0
    /\ new_seed' = <<>>
    /\ pc' = "call"
    /\ outcome' = Running("configure_seed_from_form")
    /\ UNCHANGED <<names_txt, new_ctoptions, rconfig, form, earlier>>

\* Randomizer.set_random_config as called on lines 90, 96, 131 and 134: the
\* engine builds a config from the settings it holds at that moment; the
\* config records the seed it was generated from
set_random_config ==
    /\ pc = "call"
    /\ rconfig' = Some([seed |-> heap[rsettings].seed])
    /\ pc' = "finish"
    /\ UNCHANGED <<names_txt, new_ctoptions, heap, rsettings, frame, outcome,
                   form, earlier>>

\* lines 97-98 and 132-135: the race branch restores the seed, the method
\* returns the nonce
return_nonce ==
    /\ pc = "finish"
    /\ LET h == IF race
                THEN restore_seed(heap, rsettings,
                                  IF op = "configure_seed_from_form"
                                  THEN seed ELSE new_seed)
                ELSE heap
       IN /\ heap' = h
          /\ earlier' \in {earlier, Some(Generation(h))}
    /\ outcome' = [op |-> op, status |-> "returned", value |-> nonce]
    /\ pc' = "idle"
    /\ settings' = 0 /\ seed' = <<>> /\ new_seed' = <<>> /\ nonce' = <<>>
    /\ UNCHANGED <<names_txt, new_ctoptions, rsettings, rconfig, op, gform,
                   race, form>>

\* the mystery check left out
is_mystery_never(st) == FALSE

\* line 113: the settings are those of a mystery seed
is_mystery(st) == "MYSTERY" \in st.gameflags

\* line 116 moved above the mystery check
raise_after_adopting(s, is_race_seed) ==
    /\ pc = "idle"
    /\ is_mystery(heap[s])
    /\ rsettings' = s
    /\ outcome' = [op |-> "configure_seed_from_settings", status |-> "raised",
                   value |-> <<"InvalidSettingsException">>]
    /\ UNCHANGED <<names_txt, new_ctoptions, heap, rconfig, pc, frame, form, earlier>>

\* lines 113-114: raise InvalidSettingsException
raise_InvalidSettingsException(s, is_race_seed) ==
    /\ pc = "idle"
    /\ is_mystery(heap[s])
    /\ outcome' = [op |-> "configure_seed_from_settings", status |-> "raised",
                   value |-> <<"InvalidSettingsException">>]
    /\ UNCHANGED <<names_txt, new_ctoptions, heap, rsettings, rconfig, pc,
                   frame, form, earlier>>

\* lines 116-119: the settings are adopted, seed and new_seed start equal
adopt_settings(s, is_race_seed) ==
    /\ pc = "idle"
    /\ ~is_mystery(heap[s])
    /\ rsettings' = s
    /\ settings' = s
    /\ seed' = heap[s].seed
    /\ new_seed' = heap[s].seed
    /\ nonce' = <<>>
    /\ race' = is_race_seed
    /\ op' = "configure_seed_from_settings"
    /\ pc' = "loop"
    /\ outcome' = Running("configure_seed_from_settings")
    /\ gform' = NoGenerateForm
    /\ UNCHANGED <<names_txt, new_ctoptions, heap, rconfig, form, earlier>>

\* configure_seed_from_settings(settings, is_race_seed), lines 113-119
configure_seed_from_settings(s, is_race_seed) ==
    \/ raise_InvalidSettingsException(s, is_race_seed)
    \/ adopt_settings(s, is_race_seed)

\* the loop never entered
loop_condition_false == FALSE

\* line 120: the loop condition
loop_condition == seed = new_seed

\* line 121: one pass of the loop draws a seed
draw_seed(i, j) ==
    /\ pc = "loop"
    /\ loop_condition
    /\ new_seed' = get_random_seed(i, j)
    /\ UNCHANGED <<names_txt, new_ctoptions, heap, rsettings, rconfig, pc, op,
                   gform, settings, seed, nonce, race, outcome, form, earlier>>

\* lines 122-130: the loop is left, the new seed is stored and, for a race
\* seed, the nonce appended through randomizer.settings
store_new_seed(n) ==
    /\ pc = "loop"
    /\ ~loop_condition
    /\ LET h == [heap EXCEPT ![settings].seed = new_seed]
       IN IF race
          THEN /\ nonce' = n
               /\ heap' = [h EXCEPT ![rsettings].seed = obfuscated(new_seed, n)]
          ELSE /\ nonce' = <<>>
               /\ heap' = h
    /\ pc' = "call"
    /\ UNCHANGED <<names_txt, new_ctoptions, rsettings, rconfig, op, gform,
                   settings, seed, new_seed, race, outcome, form, earlier>>


\* ------------------------------------------------- set_settings_and_config
\* truth value of an optional integer in an if: None and 0 are false
truthy(x) == ~IsNone(x) /\ x.v # 0

\* a false toggle clearing its flag
with_flag_or_without(flags, toggle, flag) ==
    IF toggle THEN flags \cup {flag} ELSE flags \ {flag}

\* lines 156-166: a true toggle sets its flag
with_flag(flags, toggle, flag) == IF toggle THEN flags \cup {flag} ELSE flags

\* lines 180-193: a boolean option is stored unless the field is None
boolean_option(old, x) == IF ~IsNone(x) THEN x.v ELSE old

\* a missing field resetting the option
one_based_option_reset(old, x) == IF truthy(x) THEN clamp(x.v - 1, 0, 7) ELSE 0

\* lines 196-206: battle_speed, background_selection, battle_message_speed
one_based_option(old, x) == IF truthy(x) THEN clamp(x.v - 1, 0, 7) ELSE old

\* lines 208-210: battle_gauge_style
gauge_style_option(old, x) == IF ~IsNone(x) THEN clamp(x.v, 0, 2) ELSE old

\* lines 156-166
cosmetic_flags_from(flags, f) ==
    with_flag(with_flag(with_flag(with_flag(flags,
        f.reduce_flashes, "REDUCE_FLASH"),
        f.zenan_alt_battle_music, "ZENAN_ALT_MUSIC"),
        f.death_peak_alt_music, "DEATH_PEAK_ALT_MUSIC"),
        f.quiet_mode, "QUIET_MODE")

\* lines 169-176
char_names_from(f) ==
    [i \in 0..7 |-> get_character_name(f[NameFields[i]], CharDefaults[i])]

\* lines 180-210
ctoptions_from(o, f) ==
    [stereo_audio |-> boolean_option(o.stereo_audio, f.stereo_audio),
     save_menu_cursor |-> boolean_option(o.save_menu_cursor, f.save_menu_cursor),
     save_battle_cursor |-> boolean_option(o.save_battle_cursor, f.save_battle_cursor),
     skill_item_info |-> boolean_option(o.skill_item_info, f.skill_item_info),
     consistent_paging |-> boolean_option(o.consistent_paging, f.consistent_paging),
     battle_speed |-> one_based_option(o.battle_speed, f.battle_speed),
     menu_background |-> one_based_option(o.menu_background, f.background_selection),
     battle_msg_speed |-> one_based_option(o.battle_msg_speed, f.battle_message_speed),
     battle_gauge_style |-> gauge_style_option(o.battle_gauge_style, f.battle_gauge_style)]

\* set_settings_and_config(settings, config, form), lines 146-213
set_settings_and_config(s, c, f) ==
    /\ pc = "idle"
    /\ heap' = [heap EXCEPT ![s] =
                  [@ EXCEPT !.cosmetic_flags = cosmetic_flags_from(@, f),
                            !.char_names = char_names_from(f),
                            !.ctoptions = ctoptions_from(@, f)]]
    /\ rsettings' = s
    /\ rconfig' = Some(c)
    /\ form' = f
    /\ outcome' = [op |-> "set_settings_and_config", status |-> "returned",
                   value |-> <<>>]
    /\ UNCHANGED <<names_txt, new_ctoptions, pc, frame, earlier>>

\* ------------------------------------------------------------ RomForm inputs
\* names of every length up to MaxNameLen: letters only, or with a character
\* that is not alphanumeric at position p
LetterNames ==
    { [i \in 1..k |-> IF i = p THEN "-" ELSE "x"] : k \in 0..MaxNameLen, p \in 0..MaxNameLen }

\* names with digits
DigitNames == { <<"R", "2", "D", "2">>, <<"1", "2", "3", "4", "5">>,
                <<"a", "b", "c", "1", "2", "3">> }

\* CharField gives a string; get_character_name also accepts None
SubmittedNames == {None} \cup {Some(n) : n \in DigitNames \cup LetterNames}

\* forms that submit one name, or the same name for everyone
NameForms ==
    { [EmptyRomForm EXCEPT ![NameFields[i]] = n] : i \in 0..7, n \in SubmittedNames }
    \cup
    { [EmptyRomForm EXCEPT !.crono_name = n, !.marle_name = n, !.lucca_name = n,
                           !.robo_name = n, !.frog_name = n, !.ayla_name = n,
                           !.magus_name = n, !.epoch_name = n] : n \in SubmittedNames }

SubmittedInts == {None} \cup {Some(v) : v \in (0 - NegSubmitted)..MaxSubmitted}

IntFields == {"battle_speed", "background_selection", "battle_message_speed",
              "battle_gauge_style"}

\* forms that submit one integer option
OptionForms ==
    { [EmptyRomForm EXCEPT ![k] = x] : k \in IntFields, x \in SubmittedInts }

\* forms that submit the cosmetic toggles and the boolean options
CosmeticForms ==
    { [EmptyRomForm EXCEPT !.reduce_flashes = t[1], !.zenan_alt_battle_music = t[2],
                           !.death_peak_alt_music = t[3], !.quiet_mode = t[4],
                           !.stereo_audio = b, !.save_menu_cursor = b,
                           !.save_battle_cursor = b, !.skill_item_info = b,
                           !.consistent_paging = b] :
        t \in [1..4 -> BOOLEAN], b \in {None, Some(TRUE), Some(FALSE)} }

\* ---------------------------------------------------------- specifications
\* seed generation
generate_from_form ==
    \E f \in GenerateForms, r \in RandomSeeds, n \in Nonces :
        configure_seed_from_form(f, r, n)

generate_from_settings ==
    \E s \in 1..Len(heap), is_race_seed \in BOOLEAN :
        configure_seed_from_settings(s, is_race_seed)

reseed_loop ==
    \/ \E i, j \in 1..Len(names) : draw_seed(i, j)
    \/ \E n \in Nonces : store_new_seed(n)

Next ==
    \/ generate_from_form
    \/ generate_from_settings
    \/ reseed_loop
    \/ set_random_config
    \/ return_nonce

\* the generation pages: new_ctoptions and cosmetic flags play no part
InitGenerate ==
    /\ Init
    /\ new_ctoptions.stereo_audio
    /\ heap[1].cosmetic_flags = {}

Spec == InitGenerate /\ [][Next]_vars

\* line 121 drawing a seed that differs from the existing one
draw_other_seed ==
    \E i, j \in 1..Len(names) : draw_seed(i, j) /\ new_seed' # seed

\* seed generation where a started method runs on and random.choice is fair:
\* each step of the method is taken once it can be, and a draw that differs
\* from the existing seed is made if the loop keeps offering one.  Callers
\* need not call.
SpecFair ==
    /\ InitGenerate
    /\ [][Next]_vars
    /\ SF_vars(draw_other_seed)
    /\ WF_vars(\E n \in Nonces : store_new_seed(n))
    /\ WF_vars(set_random_config)
    /\ WF_vars(return_nonce)

\* the download page: one settings object, names submitted
InitRom ==
    /\ Init
    /\ names_txt = <<"a">>
    /\ heap[1].seed = <<"a", "a">>
    /\ heap[1].gameflags = {}

submit_names ==
    \E c \in CallerConfigs, f \in NameForms : set_settings_and_config(1, c, f)

InitPlain == InitRom /\ heap[1].cosmetic_flags = {}

SpecNames == InitPlain /\ [][submit_names]_vars

submit_options ==
    \E c \in CallerConfigs, f \in OptionForms : set_settings_and_config(1, c, f)

SpecOptions == InitPlain /\ [][submit_options]_vars

submit_cosmetics ==
    \E c \in CallerConfigs, f \in CosmeticForms : set_settings_and_config(1, c, f)

SpecCosmetics == InitRom /\ [][submit_cosmetics]_vars


\* ------------------------------------------------------------------ claims
\* a generation method has returned and nothing has been called since
Generated(method) ==
    /\ pc = "idle"
    /\ outcome.op = method
    /\ outcome.status = "returned"

\* the latest step was a call of set_settings_and_config
Installed == outcome.op = "set_settings_and_config"

\* a decimal numeral: one or more digits
IsDecimal(n) == Len(n) > 0 /\ \A i \in 1..Len(n) : n[i] \in DigitChars

\* C1: once a race generation has returned (configure_seed_from_form with
\* spoiler_log false, configure_seed_from_settings with is_race_seed true),
\* the seed on the randomizer's settings is the seed without the nonce: the
\* form's seed, or a random seed when the form gave none or the settings
\* were reseeded; it is not the seed the engine generated from.
C1_RaceSeedRestored ==
    /\ Generated("configure_seed_from_form") /\ race =>
          /\ heap[rsettings].seed # rconfig.v.seed
          /\ IF gform.seed = <<>>
             THEN heap[rsettings].seed \in RandomSeeds
             ELSE heap[rsettings].seed = gform.seed
    /\ Generated("configure_seed_from_settings") /\ race =>
          /\ heap[rsettings].seed # rconfig.v.seed
          /\ heap[rsettings].seed \in RandomSeeds

\* a race reseeding of the settings object an earlier race generation made
C1_Witness ==
    /\ Generated("configure_seed_from_settings")
    /\ race
    /\ rsettings = 2
    /\ earlier.some /\ earlier.v.race
    /\ heap[2].seed \o <<"0">> = rconfig.v.seed

\* C2: a call of configure_seed_from_settings on settings whose gameflags
\* hold MYSTERY ends in InvalidSettingsException, whatever is_race_seed and
\* the seed are.
C2_MysteryAlwaysFails ==
    [][\A s \in 1..Len(heap), is_race_seed \in BOOLEAN :
          "MYSTERY" \in heap[s].gameflags
          /\ configure_seed_from_settings(s, is_race_seed)
          => outcome' = [op |-> "configure_seed_from_settings", status |-> "raised",
                         value |-> <<"InvalidSettingsException">>]]_vars

\* the call failed on the caller's mystery settings
C2_Witness ==
    /\ outcome.status = "raised"
    /\ "MYSTERY" \in heap[1].gameflags
    /\ heap[1].seed = <<"z", "9">>

\* C3: after set_settings_and_config, char_names[i] is the slot's default
\* when the submitted name is None, empty, longer than 5 characters or holds
\* a character that is neither letter nor digit, and the submitted name
\* otherwise.
C3_CharacterNames ==
    Installed =>
        \A i \in 0..7 :
            LET name == form[NameFields[i]]
                got == heap[rsettings].char_names[i]
            IN IF \/ ~name.some
                  \/ Len(name.v) = 0
                  \/ Len(name.v) > 5
                  \/ \E k \in 1..Len(name.v) : name.v[k] \notin Letters \cup DigitChars
               THEN got = CharDefaults[i]
               ELSE got = name.v /\ Len(got) \in 1..5

\* a five-letter name was kept for Marle while the others got their defaults
C3_Witness ==
    /\ Installed
    /\ form.marle_name = Some(<<"x", "x", "x", "x", "x">>)
    /\ heap[rsettings].char_names[1] = <<"x", "x", "x", "x", "x">>
    /\ heap[rsettings].char_names[0] = <<"C", "r", "o", "n", "o">>
    /\ heap[rsettings].char_names[7] = <<"E", "p", "o", "c", "h">>

\* v brought into lo..hi
Within(v, lo, hi) == IF v < lo THEN lo ELSE IF v > hi THEN hi ELSE v

\* the 1-based integer fields of the form and the option each is stored in
OneBased ==
    { <<"battle_speed", "battle_speed">>,
      <<"background_selection", "menu_background">>,
      <<"battle_message_speed", "battle_msg_speed">> }

\* C4 as stated: every submitted integer is stored clamped: the value minus
\* 1 brought into 0..7 for battle_speed, menu_background and
\* battle_msg_speed, the value brought into 0..2 for battle_gauge_style.
C4_EverySubmittedIntegerClamped ==
    Installed =>
        /\ \A fo \in OneBased :
              form[fo[1]].some =>
                  heap[rsettings].ctoptions[fo[2]] = Within(form[fo[1]].v - 1, 0, 7)
        /\ form.battle_gauge_style.some =>
              heap[rsettings].ctoptions.battle_gauge_style =
                  Within(form.battle_gauge_style.v, 0, 2)

\* C4 amended: the options stay in 0..7 and 0..2; a submitted integer other
\* than 0 is stored as the value minus 1 brought into 0..7, a submitted
\* battle_gauge_style as the value brought into 0..2; a submitted 0 for
\* battle_speed, background_selection or battle_message_speed leaves the
\* option as it was.
C4_NonZeroIntegersClamped ==
    [][Installed' =>
          /\ \A fo \in OneBased :
                /\ heap'[rsettings'].ctoptions[fo[2]] \in 0..7
                /\ form'[fo[1]].some /\ form'[fo[1]].v # 0 =>
                      heap'[rsettings'].ctoptions[fo[2]] = Within(form'[fo[1]].v - 1, 0, 7)
                /\ form'[fo[1]].some /\ form'[fo[1]].v = 0 =>
                      heap'[rsettings'].ctoptions[fo[2]] = heap[rsettings'].ctoptions[fo[2]]
          /\ heap'[rsettings'].ctoptions.battle_gauge_style \in 0..2
          /\ form'.battle_gauge_style.some =>
                heap'[rsettings'].ctoptions.battle_gauge_style =
                    Within(form'.battle_gauge_style.v, 0, 2)]_vars

\* a battle_speed of 0 was submitted and the option kept its value 7
C4_Witness ==
    /\ Installed
    /\ form.battle_speed = Some(0)
    /\ heap[rsettings].ctoptions.battle_speed = 7

\* C5 as stated: with an integer field missing, the call returns and the
\* option holds the default of a new settings object.
C5_MissingFieldGivesDefault ==
    Installed =>
        /\ outcome.status = "returned"
        /\ \A fo \in OneBased \cup {<<"battle_gauge_style", "battle_gauge_style">>} :
              ~form[fo[1]].some =>
                  heap[rsettings].ctoptions[fo[2]] = new_ctoptions[fo[2]]

\* C5 amended: with an integer field missing, the call returns and the
\* option holds the value it held before the call.
C5_MissingFieldKeepsValue ==
    [][Installed' =>
          /\ outcome'.status = "returned"
          /\ \A fo \in OneBased \cup {<<"battle_gauge_style", "battle_gauge_style">>} :
                ~form'[fo[1]].some =>
                    heap'[rsettings'].ctoptions[fo[2]] = heap[rsettings'].ctoptions[fo[2]]]_vars

\* battle_speed was missing and the option kept a value an earlier call
\* stored, which is not the default
C5_Witness ==
    /\ Installed
    /\ ~form.battle_speed.some
    /\ form.battle_gauge_style.some
    /\ heap[rsettings].ctoptions.battle_speed = 3
    /\ new_ctoptions.battle_speed # 3

\* C6: the engine generates from the stored seed followed by the returned
\* nonce.  While set_random_config is about to run or has run and the method
\* has not returned, a race generation holds seed + nonce on the settings,
\* the nonce a decimal numeral; after the return the config's seed is the
\* stored seed followed by the returned nonce, which is a decimal numeral
\* for a race generation and empty otherwise.
C6_EngineSeesSeedThenNonce ==
    /\ pc \in {"call", "finish"} /\ race =>
          /\ IsDecimal(nonce)
          /\ heap[rsettings].seed =
                (IF op = "configure_seed_from_form" THEN seed ELSE new_seed) \o nonce
    /\ pc \in {"call", "finish"} /\ ~race => nonce = <<>>
    /\ pc = "finish" => rconfig.v.seed = heap[rsettings].seed
    /\ \A method \in {"configure_seed_from_form", "configure_seed_from_settings"} :
          Generated(method) =>
              /\ rconfig.v.seed = heap[rsettings].seed \o outcome.value
              /\ IF race THEN IsDecimal(outcome.value) ELSE outcome.value = <<>>

\* a race generation from the form's seed has returned the nonce 999999
C6_Witness ==
    /\ Generated("configure_seed_from_form")
    /\ race
    /\ outcome.value = <<"9", "9", "9", "9", "9", "9">>
    /\ heap[rsettings].seed = <<"a", "a">>
    /\ rconfig.v.seed = <<"a", "a", "9", "9", "9", "9", "9", "9">>

\* C7: a race generation and a non-race generation of the same stored seed
\* never generate from the same seed string.
C7_RaceAndPlainDiffer ==
    \A method \in {"configure_seed_from_form", "configure_seed_from_settings"} :
        /\ Generated(method)
        /\ earlier.some
        /\ earlier.v.base = heap[rsettings].seed
        /\ earlier.v.race # race
        => earlier.v.engine # rconfig.v.seed

\* a race generation of "aa" is remembered and a non-race one has followed
C7_Witness ==
    /\ Generated("configure_seed_from_form")
    /\ ~race
    /\ earlier.some /\ earlier.v.race
    /\ earlier.v.base = <<"a", "a">>
    /\ heap[rsettings].seed = <<"a", "a">>

\* C8: when configure_seed_from_settings returns, the settings object passed
\* is the randomizer's, and its seed is one get_random_seed can return and
\* differs from the seed it held when the call began.
C8_SeedReplaced ==
    [][pc = "finish" /\ op = "configure_seed_from_settings" /\ pc' = "idle" =>
          /\ rsettings' = settings
          /\ heap'[settings].seed \in RandomSeeds
          /\ heap'[settings].seed # seed]_vars

\* the caller's settings were reseeded from a names.txt of one name: they
\* held "z9" when the call began (from "aa" the loop never ends)
C8_Witness ==
    /\ Generated("configure_seed_from_settings")
    /\ names_txt = <<"a">>
    /\ rsettings = 1
    /\ heap[1].seed = <<"a", "a">>

\* C9: a call that ends in InvalidSettingsException leaves the randomizer's
\* settings and config, every settings object and its seed as they were,
\* and does not reach set_random_config.
C9_FailureChangesNothing ==
    [][outcome'.status = "raised" =>
          /\ UNCHANGED <<heap, rsettings, rconfig>>
          /\ pc' = "idle"]_vars

\* the call failed while the randomizer held the settings and the config of
\* an earlier generation
C9_Witness ==
    /\ outcome.status = "raised"
    /\ rsettings = 2
    /\ rconfig.some
    /\ "MYSTERY" \in heap[1].gameflags

\* the cosmetic flags whose toggles are true in form f
Toggled(f) ==
    (IF f.reduce_flashes THEN {"REDUCE_FLASH"} ELSE {})
    \cup (IF f.zenan_alt_battle_music THEN {"ZENAN_ALT_MUSIC"} ELSE {})
    \cup (IF f.death_peak_alt_music THEN {"DEATH_PEAK_ALT_MUSIC"} ELSE {})
    \cup (IF f.quiet_mode THEN {"QUIET_MODE"} ELSE {})

\* C10: every call of set_settings_and_config leaves cosmetic_flags with
\* the flags it held before plus those whose toggles are true in the form:
\* no flag is cleared, and a false toggle leaves its flag as it was.
C10_CosmeticFlagsOnlyGrow ==
    [][Installed' =>
          heap'[rsettings'].cosmetic_flags =
              heap[rsettings'].cosmetic_flags \cup Toggled(form')]_vars

\* the latest form had every toggle false and the flags of earlier calls
\* and of the start are still set
C10_Witness ==
    /\ Installed
    /\ Toggled(form) = {}
    /\ heap[rsettings].cosmetic_flags = {"QUIET_MODE", "REDUCE_FLASH", "ZENAN_ALT_MUSIC"}


\* C11: once configure_seed_from_settings is in its reseed loop, the loop is
\* left, set_random_config is called and the method returns, whatever
\* names.txt holds.
C11_ReseedLoopTerminates ==
    (pc = "loop") ~> Generated("configure_seed_from_settings")

\* the same where get_random_seed can return a seed other than the existing
\* one; with a names.txt of the one name "a" and the seed "aa" it cannot,
\* every pass of the loop draws "aa" again and changes nothing
C11_TerminatesGivenAnotherSeed ==
    (pc = "loop" /\ \E r \in RandomSeeds : r # seed)
        ~> Generated("configure_seed_from_settings")

====
